---- MODULE Spec2Model ----
(***************************************************************************)
(* Model of train_gpt2.py: the sharded data loader DataLoaderLite and the  *)
(* distributed training script (gradient accumulation, collectives,        *)
(* optimizer step).                                                        *)
(*                                                                         *)
(* Two specifications share the module:                                    *)
(*   Spec      - one DataLoaderLite per rank, driven by arbitrary          *)
(*               sequences of next_batch() and reset() calls;              *)
(*   TrainSpec - the script of every rank, from the batch-size assertion   *)
(*               to destroy_process_group (TrainFair adds the fairness of  *)
(*               running processes);                                       *)
(*   LrSpec    - get_lr called on arbitrary steps, for a family of warm-up *)
(*               and decay lengths.                                        *)
(* Tensors are sequences; a Python index i is the TLA+ index i + 1.        *)
(***************************************************************************)
EXTENDS Integers, Sequences, FiniteSets, TLC

\* ------------------------------------------------------------ bounds
MaxB == 2
MaxT == 2
MaxWorldSize == 2
MinShardLen == 4
MaxShardLen == 7
MaxCalls == 3
val_loss_steps == 2
MaxTotalBs == 4
warm_up_steps == 1
max_steps == 3
eval_interval == 2
MaxWarmup == 3
MaxDecay == 3
MaxOver == 2

\* max_lr = 6e-4, in units of 1e-6.
max_lr == 600

\* The numbers of shard files a split may hold.
ShardCounts == {1, 2}
MaxShards == CHOOSE n \in ShardCounts : \A m \in ShardCounts : m <= n

VARIABLES
    B,                \* micro-batch rows
    T,                \* micro-batch sequence length
    ddp_world_size,   \* number of processes
    shards,           \* split -> sequence of shard lengths (the files on disk)
    loader,           \* Spec: rank -> DataLoaderLite object
    ret,              \* Spec: rank -> value returned by the last call
    obs,              \* Spec: rank -> the last call, and where a next_batch started
    covered,          \* Spec: rank -> position -> times returned as an input
                      \*       since the loader entered its current shard
    swept,            \* Spec: rank -> coverage of the shard the last call left
    pass_log,         \* Spec: rank -> batches returned since the last reset
    ref_log,          \* Spec: rank -> batches of the first pass after a reset
    total_bs,         \* TrainSpec: global batch size in tokens
    pc,               \* TrainSpec: rank -> place in the script
    step,             \* TrainSpec: rank -> loop variable of the training loop
    micro_step,       \* TrainSpec: rank -> loop variable of the inner loops
    grad_accum_steps, \* TrainSpec: rank -> micro-steps per optimizer step
    train_loader,     \* TrainSpec: rank -> DataLoaderLite of split train
    val_loader,       \* TrainSpec: rank -> DataLoaderLite of split val
    grad,             \* TrainSpec: rank -> micro-batch gradients summed in .grad
    params,           \* TrainSpec: rank -> updates applied to the replica
    require_backward_grad_sync,  \* TrainSpec: rank -> attribute set on model
    collectives,      \* TrainSpec: rank -> collective calls issued, in order
    lr_call           \* LrSpec: the schedule's constants and the last two
                      \*         get_lr calls with what they returned

loader_vars == <<loader, ret, obs, covered, swept, pass_log, ref_log>>
config_vars == <<B, T, ddp_world_size, shards, total_bs>>
train_vars == <<pc, step, micro_step, grad_accum_steps, train_loader, val_loader,
                grad, params, require_backward_grad_sync, collectives>>
lr_vars == <<lr_call>>
vars == <<config_vars, loader_vars, train_vars, lr_vars>>

Ranks == 0 .. (ddp_world_size - 1)
RankIds == 0 .. (MaxWorldSize - 1)
None == "None"

Min(a, b) == IF a < b THEN a ELSE b

\* ------------------------------------------------------------ tensors
\* The token stored at 0-based position i of shard file k.  Token values are
\* opaque to the loader, so each one is a number naming the place it comes
\* from: distinct places hold distinct tokens.
TokenAt(k, i) == i * MaxShards + k

\* load_tokens(filename): the whole file as a 1-D tensor.
load_tokens(split, k) == [i \in 1 .. shards[split][k + 1] |-> TokenAt(k, i - 1)]

\* Python t[a:b] for 0 <= a, 0 <= b: clamped to the tensor's length.
Slice(t, a, b) == SubSeq(t, a + 1, Min(b, Len(t)))

\* Python t[:-1] and t[1:].
DropLast(t) == SubSeq(t, 1, Len(t) - 1)
DropFirst(t) == SubSeq(t, 2, Len(t))

\* t.view(b, t): defined when the element count matches, row-major.
ViewOK(t, rows, cols) == Len(t) = rows * cols
View(t, rows, cols) ==
    [i \in 1 .. rows |-> [j \in 1 .. cols |-> t[(i - 1) * cols + (j - 1) + 1]]]

\* ------------------------------------------------------------ DataLoaderLite
\* reset(): shard 0, its tokens, the rank's base offset.
Reset_NoShard(self, split) ==
    [self EXCEPT !.tokens = load_tokens(split, self.current_shard),
                 !.current_position = self.B * self.T * self.process_rank]
Reset(self, split) ==
    [self EXCEPT !.current_shard = 0,
                 !.tokens = load_tokens(split, 0),
                 !.current_position = self.B * self.T * self.process_rank]

\* __init__: the fields, then reset().
NewLoader(b, t, rank, nproc, split) ==
    Reset([B |-> b, T |-> t, process_rank |-> rank, num_processes |-> nproc,
           nshards |-> Len(shards[split]),
           current_shard |-> 0,
           tokens |-> load_tokens(split, 0),
           current_position |-> b * t * rank], split)

\* The window next_batch reads: tokens[current_position : current_position+B*T+1].
ReadBuf(self) ==
    Slice(self.tokens, self.current_position,
          self.current_position + self.B * self.T + 1)

\* The inputs and targets cut from the window.
Inputs(buf) == DropLast(buf)
Targets_Unshifted(buf) == DropLast(buf)
Targets(buf) == DropFirst(buf)

\* Both view(B, T) calls succeed exactly when the window is complete.
BatchOK(self) ==
    /\ ViewOK(Inputs(ReadBuf(self)), self.B, self.T)
    /\ ViewOK(Targets(ReadBuf(self)), self.B, self.T)

\* The cursor advance of next_batch.
Advance_OneRank(self) == self.current_position + self.B * self.T
Advance(self) == self.current_position + self.B * self.T * self.num_processes

\* The test that sends next_batch to the next shard, on the advanced cursor.
ShardExhausted_Window(self, pos) == pos + (self.B * self.T + 1) > Len(self.tokens)
ShardExhausted_OffByOne(self, pos) ==
    pos + (self.B * self.T * self.num_processes + 1) >= Len(self.tokens)
ShardExhausted_NoTarget(self, pos) ==
    pos + self.B * self.T * self.num_processes > Len(self.tokens)
ShardExhausted(self, pos) ==
    pos + (self.B * self.T * self.num_processes + 1) > Len(self.tokens)

\* next_batch() when both views succeed: the returned pair and the loader after.
NextBatch(self, split) ==
    LET buf == ReadBuf(self)
        x == View(Inputs(buf), self.B, self.T)
        y == View(Targets(buf), self.B, self.T)
        pos == Advance(self)
        next_shard == (self.current_shard + 1) % self.nshards
    IN  IF ShardExhausted(self, pos)
        THEN [x |-> x, y |-> y, switched |-> TRUE,
              self |-> [self EXCEPT !.current_shard = next_shard,
                                    !.tokens = load_tokens(split, next_shard),
                                    !.current_position = self.B * self.T * self.process_rank]]
        ELSE [x |-> x, y |-> y, switched |-> FALSE,
              self |-> [self EXCEPT !.current_position = pos]]

\* The positions a batch returns as inputs, and the coverage count after it.
NoCover(n) == [i \in 0 .. n - 1 |-> 0]
NotSwept == [left |-> FALSE, cov |-> NoCover(0)]
Cover(cov, p, n) == [i \in DOMAIN cov |-> IF p <= i /\ i < p + n THEN cov[i] + 1 ELSE cov[i]]

\* ------------------------------------------------------------ the script
\* A name not yet bound to a DataLoaderLite.
NoLoader ==
    [B |-> 0, T |-> 0, process_rank |-> 0, num_processes |-> 0, nshards |-> 0,
     current_shard |-> 0, tokens |-> <<>>, current_position |-> 0]

\* Every process before its first statement.
NotStarted ==
    /\ pc = [r \in Ranks |-> "start"]
    /\ step = [r \in Ranks |-> 0]
    /\ micro_step = [r \in Ranks |-> 0]
    /\ grad_accum_steps = [r \in Ranks |-> 0]
    /\ train_loader = [r \in Ranks |-> NoLoader]
    /\ val_loader = [r \in Ranks |-> NoLoader]
    /\ grad = [r \in Ranks |-> <<>>]
    /\ params = [r \in Ranks |-> <<>>]
    /\ require_backward_grad_sync = [r \in Ranks |-> None]
    /\ collectives = [r \in Ranks |-> <<>>]

\* ddp: RANK is set in the environment, which the launcher does for every
\* process of a group of more than one.
ddp == ddp_world_size > 1

\* The assertion on the global batch size.
ConfigOK_NoWorld(bs, b, t, w) == bs % (b * t) = 0
ConfigOK(bs, b, t, w) == bs % (b * t * w) = 0

\* cos(pi * num / den) * 1000 for 0 <= num <= den, rounded down: the rational
\* approximation (1 - 4u^2) / (1 + u^2) on [0, 1/2], mirrored on [1/2, 1].
CosPi(num, den) ==
    IF 2 * num <= den
    THEN (1000 * (den * den - 4 * num * num)) \div (den * den + num * num)
    ELSE -((1000 * (den * den - 4 * (den - num) * (den - num)))
             \div (den * den + (den - num) * (den - num)))

min_lr == max_lr \div 10

\* The branches of get_lr for a warm-up of warm steps and a schedule of maxs
\* steps, in units of 1e-6: the linear warm-up, and the cosine decay with coeff
\* in thousandths.
Warmup_NoPlusOne(it, warm) == (it * max_lr) \div warm
Warmup(it, warm) == ((it + 1) * max_lr) \div warm
Decay(it, warm, maxs) ==
    LET coeff == (1000 + CosPi(it - warm, maxs - warm)) \div 2
    IN  min_lr + (coeff * (max_lr - min_lr)) \div 1000

\* assert 0 <= decay_ratio <= 1, decay_ratio being (it - warm) / (maxs - warm)
\* with maxs > warm.
DecayRatioOK(it, warm, maxs) == 0 <= it - warm /\ it - warm <= maxs - warm

\* Whether get_lr reaches the assertion and fails it.
LrRaises(it, warm, maxs) ==
    /\ ~(it < warm)
    /\ ~(it > maxs)
    /\ ~DecayRatioOK(it, warm, maxs)

lr_schedule(it, warm, maxs) ==
    IF it < warm THEN Warmup(it, warm)
    ELSE IF it > maxs THEN min_lr
    ELSE Decay(it, warm, maxs)

\* get_lr(step) with the script's constants.
get_lr(it) == lr_schedule(it, warm_up_steps, max_steps)

\* No get_lr call made yet, under the given constants.
NoLrCall(warm, maxs) ==
    [warm_up_steps |-> warm, max_steps |-> maxs,
     it |-> -1, lr |-> 0, raised |-> FALSE, prev_it |-> -1, prev_lr |-> 0]

\* Whether the script issues dist.all_reduce on val_loss_accum / loss_accum.
ReducesLoss_MasterOnly(r) == ddp /\ r = 0
ReducesLoss(r) == ddp

\* optimizer.zero_grad().
ZeroGrad_Missing(g) == g
ZeroGrad(g) == <<>>

\* loss.backward() on model, which is the bare module and not the DDP wrapper
\* (lines 272-273): backward only adds the micro-batch's gradient to the
\* process's own .grad buffers, and no reducer hook runs.
Backward(g, contribution) == Append(g, contribution)

\* optimizer.step() after clip_grad_norm_ and the param_group lr assignment.
OptimizerStep(p, g, it) == Append(p, [step |-> it, lr |-> get_lr(it), grad |-> g])

\* The shard lists of a run of the script: every shard holds at least one
\* window of every rank.
TrainShardLens == {B * T * ddp_world_size + 1, 2 * B * T * ddp_world_size + 2}
TrainShardLists == UNION {[1 .. n -> TrainShardLens] : n \in ShardCounts}

TrainInit ==
    /\ B \in 1 .. MaxB
    /\ T \in 1 .. MaxT
    /\ ddp_world_size \in 1 .. MaxWorldSize
    /\ total_bs \in 1 .. MaxTotalBs
    /\ \E l \in TrainShardLists : shards = [train |-> l, val |-> l]
    /\ NotStarted
    /\ lr_call = NoLrCall(warm_up_steps, max_steps)
    /\ loader = [r \in Ranks |-> NoLoader]
    /\ ret = [r \in Ranks |-> None]
    /\ obs = [r \in Ranks |-> [op |-> "init", shard |-> 0, pos |-> 0,
                               switched |-> FALSE, calls |-> 0, failed |-> FALSE]]
    /\ covered = [r \in Ranks |-> NoCover(0)]
    /\ swept = [r \in Ranks |-> NotSwept]
    /\ pass_log = [r \in Ranks |-> <<>>]
    /\ ref_log = [r \in Ranks |-> <<>>]

\* A collective returns once every process of the group has issued it.
AllArrived(r) == \A q \in Ranks : Len(collectives[q]) >= Len(collectives[r])

\* Lines 253-272: the assertion, grad_accum_steps, the two loaders, the model,
\* and when ddp the DDP constructor, which broadcasts rank 0's parameters.  A
\* failed assertion ends the process.
Startup(r) ==
    /\ r \in Ranks
    /\ pc[r] = "start"
    /\ IF ConfigOK(total_bs, B, T, ddp_world_size)
       THEN /\ grad_accum_steps' = [grad_accum_steps EXCEPT ![r] =
                                       total_bs \div (B * T * ddp_world_size)]
            /\ train_loader' = [train_loader EXCEPT ![r] =
                                   NewLoader(B, T, r, ddp_world_size, "train")]
            /\ val_loader' = [val_loader EXCEPT ![r] =
                                 NewLoader(B, T, r, ddp_world_size, "val")]
            /\ IF ddp
               THEN /\ collectives' = [collectives EXCEPT ![r] =
                                          Append(@, [kind |-> "ddp_broadcast", step |-> 0])]
                    /\ pc' = [pc EXCEPT ![r] = "ddp_init"]
               ELSE /\ pc' = [pc EXCEPT ![r] = "loop"]
                    /\ UNCHANGED collectives
       ELSE /\ pc' = [pc EXCEPT ![r] = "config_error"]
            /\ UNCHANGED <<grad_accum_steps, train_loader, val_loader, collectives>>
    /\ UNCHANGED <<step, micro_step, grad, params, require_backward_grad_sync>>
    /\ UNCHANGED <<config_vars, loader_vars, lr_vars>>

\* The DDP constructor returns; its result is bound to no name (line 272), so
\* model is still the bare module (line 273).
DdpInit(r) ==
    /\ r \in Ranks
    /\ pc[r] = "ddp_init"
    /\ AllArrived(r)
    /\ pc' = [pc EXCEPT ![r] = "loop"]
    /\ UNCHANGED <<step, micro_step, grad_accum_steps, train_loader, val_loader,
                   grad, params, require_backward_grad_sync, collectives>>
    /\ UNCHANGED <<config_vars, loader_vars, lr_vars>>

\* The head of `for step in range(max_steps)`: leave the loop, start the
\* validation pass (val_loader.reset()) or go on to the accumulation window.
LoopTop(r) ==
    /\ r \in Ranks
    /\ pc[r] = "loop"
    /\ IF step[r] >= max_steps
       THEN /\ pc' = [pc EXCEPT ![r] = "done"]
            /\ UNCHANGED <<val_loader, micro_step>>
       ELSE IF step[r] % eval_interval = 0
       THEN /\ val_loader' = [val_loader EXCEPT ![r] = Reset(@, "val")]
            /\ micro_step' = [micro_step EXCEPT ![r] = 0]
            /\ pc' = [pc EXCEPT ![r] = "val"]
       ELSE /\ pc' = [pc EXCEPT ![r] = "train"]
            /\ UNCHANGED <<val_loader, micro_step>>
    /\ UNCHANGED <<step, grad_accum_steps, train_loader, grad, params,
                   require_backward_grad_sync, collectives>>
    /\ UNCHANGED <<config_vars, loader_vars, lr_vars>>

\* One iteration of the validation loop; after the last one the loss is
\* averaged across the group when ddp.  view() raising ends the process: no
\* action is enabled for it then.
ValBatch(r) ==
    /\ r \in Ranks
    /\ pc[r] = "val"
    /\ BatchOK(val_loader[r])
    /\ val_loader' = [val_loader EXCEPT ![r] = NextBatch(@, "val").self]
    /\ micro_step' = [micro_step EXCEPT ![r] = @ + 1]
    /\ IF micro_step[r] + 1 < val_loss_steps
       THEN UNCHANGED <<pc, collectives>>
       ELSE IF ReducesLoss(r)
       THEN /\ collectives' = [collectives EXCEPT ![r] =
                                  Append(@, [kind |-> "val_loss_accum", step |-> step[r]])]
            /\ pc' = [pc EXCEPT ![r] = "val_all_reduce"]
       ELSE /\ pc' = [pc EXCEPT ![r] = "train"]
            /\ UNCHANGED collectives
    /\ UNCHANGED <<step, grad_accum_steps, train_loader, grad, params,
                   require_backward_grad_sync>>
    /\ UNCHANGED <<config_vars, loader_vars, lr_vars>>

\* dist.all_reduce(val_loss_accum) returns; the sampling block that may follow
\* touches no gradient, parameter, loader or collective.
ValAllReduce(r) ==
    /\ r \in Ranks
    /\ pc[r] = "val_all_reduce"
    /\ AllArrived(r)
    /\ pc' = [pc EXCEPT ![r] = "train"]
    /\ UNCHANGED <<step, micro_step, grad_accum_steps, train_loader, val_loader,
                   grad, params, require_backward_grad_sync, collectives>>
    /\ UNCHANGED <<config_vars, loader_vars, lr_vars>>

\* model.train(); optimizer.zero_grad(); loss_accum = 0.0.
TrainBegin(r) ==
    /\ r \in Ranks
    /\ pc[r] = "train"
    /\ grad' = [grad EXCEPT ![r] = ZeroGrad(@)]
    /\ micro_step' = [micro_step EXCEPT ![r] = 0]
    /\ pc' = [pc EXCEPT ![r] = "micro"]
    /\ UNCHANGED <<step, grad_accum_steps, train_loader, val_loader, params,
                   require_backward_grad_sync, collectives>>
    /\ UNCHANGED <<config_vars, loader_vars, lr_vars>>

\* One micro-step: next_batch, forward, the attribute assignment, backward;
\* after the last one loss_accum is averaged across the group when ddp.
MicroStep(r) ==
    /\ r \in Ranks
    /\ pc[r] = "micro"
    /\ BatchOK(train_loader[r])
    /\ train_loader' = [train_loader EXCEPT ![r] = NextBatch(@, "train").self]
    /\ require_backward_grad_sync' =
          IF ddp
          THEN [require_backward_grad_sync EXCEPT ![r] =
                   IF micro_step[r] = grad_accum_steps[r] - 1 THEN "True" ELSE "False"]
          ELSE require_backward_grad_sync
    /\ grad' = [grad EXCEPT ![r] =
                   Backward(@, [step |-> step[r], micro_step |-> micro_step[r],
                                shard |-> train_loader[r].current_shard,
                                pos |-> train_loader[r].current_position])]
    /\ micro_step' = [micro_step EXCEPT ![r] = @ + 1]
    /\ IF micro_step[r] + 1 < grad_accum_steps[r]
       THEN UNCHANGED <<pc, collectives>>
       ELSE IF ReducesLoss(r)
       THEN /\ collectives' = [collectives EXCEPT ![r] =
                                  Append(@, [kind |-> "loss_accum", step |-> step[r]])]
            /\ pc' = [pc EXCEPT ![r] = "loss_all_reduce"]
       ELSE /\ pc' = [pc EXCEPT ![r] = "update"]
            /\ UNCHANGED collectives
    /\ UNCHANGED <<step, grad_accum_steps, val_loader, params>>
    /\ UNCHANGED <<config_vars, loader_vars, lr_vars>>

\* dist.all_reduce(loss_accum) returns.
LossAllReduce(r) ==
    /\ r \in Ranks
    /\ pc[r] = "loss_all_reduce"
    /\ AllArrived(r)
    /\ pc' = [pc EXCEPT ![r] = "update"]
    /\ UNCHANGED <<step, micro_step, grad_accum_steps, train_loader, val_loader,
                   grad, params, require_backward_grad_sync, collectives>>
    /\ UNCHANGED <<config_vars, loader_vars, lr_vars>>

\* clip_grad_norm_, lr = get_lr(step), optimizer.step(), and the loop's step.
Update(r) ==
    /\ r \in Ranks
    /\ pc[r] = "update"
    /\ params' = [params EXCEPT ![r] = OptimizerStep(@, grad[r], step[r])]
    /\ step' = [step EXCEPT ![r] = @ + 1]
    /\ pc' = [pc EXCEPT ![r] = "loop"]
    /\ UNCHANGED <<micro_step, grad_accum_steps, train_loader, val_loader, grad,
                   require_backward_grad_sync, collectives>>
    /\ UNCHANGED <<config_vars, loader_vars, lr_vars>>

\* The steps of the process of rank r.
Worker(r) ==
    \/ Startup(r)
    \/ DdpInit(r)
    \/ LoopTop(r)
    \/ ValBatch(r)
    \/ ValAllReduce(r)
    \/ TrainBegin(r)
    \/ MicroStep(r)
    \/ LossAllReduce(r)
    \/ Update(r)

TrainNext ==
    \/ \E r \in RankIds : Startup(r)
    \/ \E r \in RankIds : DdpInit(r)
    \/ \E r \in RankIds : LoopTop(r)
    \/ \E r \in RankIds : ValBatch(r)
    \/ \E r \in RankIds : ValAllReduce(r)
    \/ \E r \in RankIds : TrainBegin(r)
    \/ \E r \in RankIds : MicroStep(r)
    \/ \E r \in RankIds : LossAllReduce(r)
    \/ \E r \in RankIds : Update(r)

TrainSpec == TrainInit /\ [][TrainNext]_vars

\* Every process that can take a step eventually takes one.
TrainFair == TrainSpec /\ \A r \in RankIds : WF_vars(Worker(r))

\* ------------------------------------------------------------ Spec: the loaders
ShardLens == MinShardLen .. MaxShardLen
ShardLists == UNION {[1 .. n -> ShardLens] : n \in ShardCounts}

Init ==
    /\ B \in 1 .. MaxB
    /\ T \in 1 .. MaxT
    /\ ddp_world_size \in 1 .. MaxWorldSize
    /\ \E l \in ShardLists : shards = [train |-> l, val |-> l]
    /\ total_bs = B * T * ddp_world_size
    /\ NotStarted
    /\ lr_call = NoLrCall(warm_up_steps, max_steps)
    /\ loader = [r \in Ranks |-> NewLoader(B, T, r, ddp_world_size, "train")]
    /\ ret = [r \in Ranks |-> None]
    /\ obs = [r \in Ranks |-> [op |-> "init", shard |-> 0, pos |-> 0,
                               switched |-> FALSE, calls |-> 0, failed |-> FALSE]]
    /\ covered = [r \in Ranks |-> NoCover(Len(loader[r].tokens))]
    /\ swept = [r \in Ranks |-> NotSwept]
    /\ pass_log = [r \in Ranks |-> <<>>]
    /\ ref_log = [r \in Ranks |-> <<>>]

\* A call of next_batch() whose views succeed.
NextBatchCall(r) ==
    /\ r \in Ranks
    /\ ~obs[r].failed
    /\ obs[r].calls < MaxCalls
    /\ BatchOK(loader[r])
    /\ LET self == loader[r]
           res == NextBatch(self, "train")
           cov == Cover(covered[r], self.current_position, self.B * self.T)
           batch == [x |-> res.x, y |-> res.y]
       IN  /\ loader' = [loader EXCEPT ![r] = res.self]
           /\ ret' = [ret EXCEPT ![r] = batch]
           /\ obs' = [obs EXCEPT ![r] = [op |-> "next_batch",
                                         shard |-> self.current_shard,
                                         pos |-> self.current_position,
                                         switched |-> res.switched,
                                         calls |-> obs[r].calls + 1,
                                         failed |-> FALSE]]
           /\ covered' = [covered EXCEPT ![r] =
                             IF res.switched THEN NoCover(Len(res.self.tokens)) ELSE cov]
           /\ swept' = [swept EXCEPT ![r] =
                             IF res.switched THEN [left |-> TRUE, cov |-> cov] ELSE NotSwept]
           /\ pass_log' = [pass_log EXCEPT ![r] =
                             IF Len(@) < val_loss_steps THEN Append(@, batch) ELSE @]
           /\ ref_log' = [ref_log EXCEPT ![r] =
                             IF Len(@) = Len(pass_log[r]) /\ Len(@) < val_loss_steps
                             THEN Append(@, batch) ELSE @]
    /\ UNCHANGED <<config_vars, train_vars, lr_vars>>

\* A call of next_batch() on an incomplete window: view() raises and the
\* process ends with the loader as it was.
NextBatchRaises(r) ==
    /\ r \in Ranks
    /\ ~obs[r].failed
    /\ obs[r].calls < MaxCalls
    /\ ~BatchOK(loader[r])
    /\ obs' = [obs EXCEPT ![r] = [@ EXCEPT !.op = "error", !.failed = TRUE,
                                           !.shard = loader[r].current_shard,
                                           !.pos = loader[r].current_position,
                                           !.switched = FALSE]]
    /\ ret' = [ret EXCEPT ![r] = None]
    /\ swept' = [swept EXCEPT ![r] = NotSwept]
    /\ UNCHANGED <<loader, covered, pass_log, ref_log>>
    /\ UNCHANGED <<config_vars, train_vars, lr_vars>>

\* A call of reset().
ResetCall(r) ==
    /\ r \in Ranks
    /\ ~obs[r].failed
    /\ LET self == Reset(loader[r], "train")
       IN  /\ loader' = [loader EXCEPT ![r] = self]
           /\ obs' = [obs EXCEPT ![r] = [op |-> "reset",
                                         shard |-> 0,
                                         pos |-> 0,
                                         switched |-> FALSE,
                                         calls |-> 0,
                                         failed |-> FALSE]]
           /\ covered' = [covered EXCEPT ![r] = NoCover(Len(self.tokens))]
    /\ ret' = [ret EXCEPT ![r] = None]
    /\ swept' = [swept EXCEPT ![r] = NotSwept]
    /\ pass_log' = [pass_log EXCEPT ![r] = <<>>]
    /\ UNCHANGED ref_log
    /\ UNCHANGED <<config_vars, train_vars, lr_vars>>

Next ==
    \/ \E r \in RankIds : NextBatchCall(r)
    \/ \E r \in RankIds : NextBatchRaises(r)
    \/ \E r \in RankIds : ResetCall(r)

Spec == Init /\ [][Next]_vars

\* ------------------------------------------------------------ LrSpec: get_lr
\* The schedule's constants: a warm-up of 1 .. MaxWarmup steps followed by a
\* decay of 1 .. MaxDecay steps (max_steps > warm_up_steps, as in the script).
Schedules ==
    {NoLrCall(w, w + d) : w \in 1 .. MaxWarmup, d \in 1 .. MaxDecay}

\* The steps get_lr is called on: 0 up to MaxOver steps past max_steps.
LrSteps == 0 .. (MaxWarmup + MaxDecay + MaxOver)

LrInit ==
    /\ B = 1
    /\ T = 1
    /\ ddp_world_size = 1
    /\ total_bs = 1
    /\ shards = [train |-> <<MinShardLen>>, val |-> <<MinShardLen>>]
    /\ NotStarted
    /\ lr_call \in Schedules
    /\ loader = [r \in Ranks |-> NoLoader]
    /\ ret = [r \in Ranks |-> None]
    /\ obs = [r \in Ranks |-> [op |-> "init", shard |-> 0, pos |-> 0,
                               switched |-> FALSE, calls |-> 0, failed |-> FALSE]]
    /\ covered = [r \in Ranks |-> NoCover(0)]
    /\ swept = [r \in Ranks |-> NotSwept]
    /\ pass_log = [r \in Ranks |-> <<>>]
    /\ ref_log = [r \in Ranks |-> <<>>]

\* One call get_lr(n): what it returns, or that its assertion failed.
GetLr(n) ==
    /\ n <= lr_call.max_steps + MaxOver
    /\ lr_call' =
        [lr_call EXCEPT
            !.it = n,
            !.lr = lr_schedule(n, lr_call.warm_up_steps, lr_call.max_steps),
            !.raised = LrRaises(n, lr_call.warm_up_steps, lr_call.max_steps),
            !.prev_it = lr_call.it,
            !.prev_lr = lr_call.lr]
    /\ UNCHANGED <<config_vars, loader_vars, train_vars>>

LrNext ==
    \/ \E n \in LrSteps : GetLr(n)

LrSpec == LrInit /\ [][LrNext]_vars

\* ------------------------------------------------------------ claims on Spec
\* The shard file's length and the places a loader reads.
ShardLen(k) == shards["train"][k + 1]
BT == B * T
InputPositions(r) ==
    {i \in 0 .. Len(loader[r].tokens) - 1 :
        /\ loader[r].current_position <= i
        /\ i < loader[r].current_position + BT}
WindowPositions(r) ==
    {i \in 0 .. Len(loader[r].tokens) - 1 :
        /\ loader[r].current_position <= i
        /\ i < loader[r].current_position + BT + 1}

\* C1: a next_batch call made at cursor p of shard s with p + B*T + 1 <= len(s)
\* returns; its inputs are s[p .. p+B*T) and its targets s[p+1 .. p+B*T+1),
\* both row-major [B,T], so targets[i][j] is the token after inputs[i][j]; and
\* when the call does not switch shard the cursor is p + B*T*world_size.
C1_BatchContents ==
    \A r \in Ranks :
        LET s == obs[r].shard
            p == obs[r].pos
        IN  (obs[r].op \in {"next_batch", "error"} /\ p + BT + 1 <= ShardLen(s)) =>
                /\ obs[r].op = "next_batch"
                /\ DOMAIN ret[r].x = 1 .. B
                /\ DOMAIN ret[r].y = 1 .. B
                /\ \A i \in 1 .. B :
                    /\ DOMAIN ret[r].x[i] = 1 .. T
                    /\ DOMAIN ret[r].y[i] = 1 .. T
                    /\ \A j \in 1 .. T :
                        /\ ret[r].x[i][j] = TokenAt(s, p + (i - 1) * T + (j - 1))
                        /\ ret[r].y[i][j] = TokenAt(s, p + (i - 1) * T + (j - 1) + 1)
                /\ ~obs[r].switched =>
                    /\ loader[r].current_position = p + BT * ddp_world_size
                    /\ loader[r].current_shard = s

C1_Witness ==
    \E r \in Ranks :
        /\ obs[r].op = "next_batch"
        /\ ~obs[r].switched
        /\ obs[r].pos > 0
        /\ T > 1
        /\ ret[r].y[1][1] = ret[r].x[1][2]

\* The loader a call leaves behind when it moves to the next shard, and when
\* it stays, for a call made at cursor p of shard s.
MovedOn(r, s) ==
    /\ loader[r].current_shard = (s + 1) % Len(shards["train"])
    /\ loader[r].tokens = load_tokens("train", (s + 1) % Len(shards["train"]))
    /\ loader[r].current_position = r * BT
Stayed(r, s, p) ==
    /\ loader[r].current_shard = s
    /\ loader[r].tokens = load_tokens("train", s)
    /\ loader[r].current_position = p + BT * ddp_world_size

\* C2 (as amended): next_batch moves to shard (current_shard + 1) mod
\* number_of_shards with cursor rank*B*T exactly when advanced cursor +
\* B*T*world_size + 1 exceeds the shard's length; otherwise shard and advanced
\* cursor are kept.
C2_SwitchRule ==
    \A r \in Ranks :
        LET s == obs[r].shard
            p == obs[r].pos
            adv == p + BT * ddp_world_size
        IN  obs[r].op = "next_batch" =>
                IF adv + BT * ddp_world_size + 1 > ShardLen(s)
                THEN MovedOn(r, s) /\ obs[r].switched
                ELSE Stayed(r, s, p) /\ ~obs[r].switched

C2_Witness ==
    \E r \in Ranks :
        /\ obs[r].op = "next_batch"
        /\ obs[r].switched
        /\ ddp_world_size > 1
        /\ obs[r].pos + BT * ddp_world_size + BT + 1 <= ShardLen(obs[r].shard)

\* C2 (original): the loader moves on exactly when the B*T+1 tokens at the
\* advanced cursor would exceed the shard's length.
C2_Original ==
    \A r \in Ranks :
        LET s == obs[r].shard
            p == obs[r].pos
            adv == p + BT * ddp_world_size
        IN  obs[r].op = "next_batch" =>
                IF adv + BT + 1 > ShardLen(s)
                THEN MovedOn(r, s)
                ELSE Stayed(r, s, p)

\* C3: with world_size = 1, within one sweep of a shard no position is
\* returned as an input twice, and the sweep a call completes has returned
\* every position once except a final remainder of fewer than B*T+1 tokens.
C3_Coverage ==
    ddp_world_size = 1 =>
        \A r \in Ranks :
            /\ \A i \in DOMAIN covered[r] : covered[r][i] <= 1
            /\ swept[r].left =>
                LET n == Cardinality(DOMAIN swept[r].cov)
                IN  \E m \in 0 .. n :
                        /\ \A i \in 0 .. m - 1 : swept[r].cov[i] = 1
                        /\ \A i \in m .. n - 1 : swept[r].cov[i] = 0
                        /\ n - m < BT + 1
                        /\ n = ShardLen(obs[r].shard)

C3_Witness ==
    /\ ddp_world_size = 1
    /\ swept[0].left
    /\ \E i \in DOMAIN swept[0].cov : swept[0].cov[i] = 0
    /\ Cardinality({i \in DOMAIN swept[0].cov : swept[0].cov[i] = 1}) >= 2 * BT

\* C4 (as amended): for two distinct ranks in the same shard, whatever the
\* numbers of calls made, the B*T input positions their next calls read share
\* no position.
C4_InputsDisjoint ==
    \A r1 \in Ranks : \A r2 \in Ranks :
        (r1 # r2 /\ loader[r1].current_shard = loader[r2].current_shard) =>
            InputPositions(r1) \cap InputPositions(r2) = {}

C4_Witness ==
    \E r1 \in Ranks : \E r2 \in Ranks :
        /\ r1 # r2
        /\ loader[r1].current_shard = loader[r2].current_shard
        /\ obs[r1].calls = obs[r2].calls
        /\ obs[r1].calls > 0
        /\ InputPositions(r1) # {}
        /\ InputPositions(r2) # {}
        /\ WindowPositions(r1) \cap WindowPositions(r2) # {}

\* C4 (original): after equally many calls, the B*T+1-token windows two
\* distinct ranks read next share no position of the same shard.
C4_Original ==
    \A r1 \in Ranks : \A r2 \in Ranks :
        (/\ r1 # r2
         /\ obs[r1].calls = obs[r2].calls
         /\ loader[r1].current_shard = loader[r2].current_shard) =>
            WindowPositions(r1) \cap WindowPositions(r2) = {}

\* C5: reset() leaves shard 0 and cursor rank*B*T whatever came before, and
\* every pass (reset, then val_loss_steps calls) returns the batches of the
\* first pass, in order.
C5_ResetRepeats ==
    \A r \in Ranks :
        /\ obs[r].op = "reset" =>
            /\ loader[r].current_shard = 0
            /\ loader[r].tokens = load_tokens("train", 0)
            /\ loader[r].current_position = r * BT
        /\ \A i \in 1 .. Min(Len(pass_log[r]), Len(ref_log[r])) :
            pass_log[r][i] = ref_log[r][i]

C5_Witness ==
    \E r \in Ranks :
        /\ Len(ref_log[r]) = val_loss_steps
        /\ obs[r].op = "next_batch"
        /\ obs[r].calls = 1
        /\ Len(pass_log[r]) = 1
        /\ ref_log[r][val_loss_steps].x[1][1] = TokenAt(1, r * BT)

\* C12: after equally many next_batch calls since construction or reset the
\* loaders of all ranks are in the same shard: all ranks leave a shard on the
\* same call.
C12_Original ==
    \A r1 \in Ranks : \A r2 \in Ranks :
        obs[r1].calls = obs[r2].calls =>
            loader[r1].current_shard = loader[r2].current_shard

\* Every shard holds at least B*T*world_size + 1 tokens.
ShardsLongEnough ==
    \A k \in 1 .. Len(shards["train"]) : shards["train"][k] >= BT * ddp_world_size + 1

\* C13: when every shard holds at least B*T*world_size + 1 tokens, on every
\* rank cursor + B*T + 1 <= length of the current shard in every state, no
\* call raises, and every next_batch returns B*T inputs and B*T targets.
C13_FullWindows ==
    ShardsLongEnough =>
        \A r \in Ranks :
            /\ loader[r].current_position + BT + 1 <= Len(loader[r].tokens)
            /\ Len(loader[r].tokens) = ShardLen(loader[r].current_shard)
            /\ ~obs[r].failed
            /\ obs[r].op = "next_batch" =>
                /\ Len(ret[r].x) = B
                /\ Len(ret[r].y) = B
                /\ \A i \in 1 .. B : Len(ret[r].x[i]) = T /\ Len(ret[r].y[i]) = T

C13_Witness ==
    /\ ShardsLongEnough
    /\ ddp_world_size > 1
    /\ \E r \in Ranks :
        /\ r > 0
        /\ obs[r].op = "next_batch"
        /\ obs[r].calls >= 2
        /\ obs[r].switched
        /\ loader[r].current_position + BT + 1 = Len(loader[r].tokens)

GradAverages(r, it) ==
    Cardinality({i \in 1 .. Len(collectives[r]) :
                    /\ collectives[r][i].kind = "grad_average"
                    /\ collectives[r][i].step = it})

\* C6: in distributed mode every training step performs exactly one
\* cross-worker gradient average, after the backward of the final micro-step
\* and before the optimizer step, and none during the earlier micro-steps.
C6_Original ==
    ddp =>
        \A r \in Ranks :
            /\ pc[r] = "micro" => GradAverages(r, step[r]) = 0
            /\ \A k \in 1 .. Len(params[r]) : GradAverages(r, params[r][k].step) = 1

\* C7: in distributed mode the k-th optimizer step of every worker applies the
\* same gradient under the same learning rate, so replicas equal before
\* training stay equal after every optimizer step.
C7_Original ==
    ddp =>
        \A r1 \in Ranks : \A r2 \in Ranks :
            \A k \in 1 .. Min(Len(params[r1]), Len(params[r2])) :
                /\ params[r1][k].grad = params[r2][k].grad
                /\ params[r1][k].lr = params[r2][k].lr

\* One sequence of collective calls is an initial part of the other.
SameOrder(a, b) == \A i \in 1 .. Min(Len(a), Len(b)) : a[i] = b[i]

\* Every process has left the training loop after max_steps steps, having
\* issued the same collective calls as every other.
AllDone ==
    \A r \in Ranks :
        /\ pc[r] = "done"
        /\ step[r] = max_steps
        /\ Len(params[r]) = max_steps
        /\ collectives[r] = collectives[0]

\* Process r is inside dist.all_reduce.
InCollective(r) ==
    r \in Ranks /\ pc[r] \in {"ddp_init", "val_all_reduce", "loss_all_reduce"}

WindowOf(g, it, n) ==
    /\ Len(g) = n
    /\ \A i \in 1 .. Len(g) : g[i].step = it /\ g[i].micro_step = i - 1

\* C9: the gradient buffers are zero when a window's first micro-step starts
\* and hold exactly the micro-steps done so far of the current step during the
\* window; every optimizer step is applied to the sum of exactly
\* grad_accum_steps micro-batch gradients of its own step, at lr(step), once
\* per step.
C9_Accumulation ==
    \A r \in Ranks :
        /\ pc[r] = "micro" => WindowOf(grad[r], step[r], micro_step[r])
        /\ Len(params[r]) = step[r]
        /\ \A k \in 1 .. Len(params[r]) :
            /\ params[r][k].step = k - 1
            /\ params[r][k].lr = get_lr(k - 1)
            /\ WindowOf(params[r][k].grad, k - 1, grad_accum_steps[r])

C9_Witness ==
    \E r \in Ranks :
        /\ Len(params[r]) >= 2
        /\ grad_accum_steps[r] >= 2
        /\ pc[r] = "micro"
        /\ micro_step[r] = 1

\* C10: when the global batch size is no multiple of B*T*world_size the run
\* ends in the assertion with no loader built, no batch fetched and no
\* optimizer step; otherwise grad_accum_steps * B * T * world_size is the
\* global batch size.
C10_BatchSizeCheck ==
    \A r \in Ranks :
        pc[r] # "start" =>
            IF total_bs % (B * T * ddp_world_size) # 0
            THEN /\ pc[r] = "config_error"
                 /\ train_loader[r] = NoLoader
                 /\ val_loader[r] = NoLoader
                 /\ grad[r] = <<>>
                 /\ params[r] = <<>>
            ELSE /\ pc[r] # "config_error"
                 /\ grad_accum_steps[r] * B * T * ddp_world_size = total_bs

C10_Witness ==
    /\ ddp
    /\ total_bs > B * T
    /\ total_bs % (B * T) = 0
    /\ \A r \in Ranks : pc[r] = "config_error"

====
